---- MODULE Spec2Model ----
(***************************************************************************)
(* Model of the Solidity contract DriverAssignmentTracker: an append-only  *)
(* log of driver/bus assignments with five index mappings and five view    *)
(* queries.  A transaction of the EVM runs to completion or reverts as a   *)
(* whole, so every public function is one atomic action.                   *)
(*                                                                         *)
(* Strings are sequences of byte values, as abi.encodePacked sees them.    *)
(* Solidity arrays are 0-based; a 0-based position i of an array arr is    *)
(* arr[i + 1] here.  A mapping is a function whose domain is the set of    *)
(* keys written so far; a read of any other key yields the type's zero     *)
(* value (0, or the empty array), as a read of fresh storage does.         *)
(***************************************************************************)
EXTENDS Integers, Sequences, FiniteSets, TLC

\* ------------------------------------------------------------------ bounds
\* Number of recordAssignment transactions explored.
MaxLog == 2

\* Timestamps range over 0..MaxTime.
MaxTime == 1

\* Width in bytes of a uint256 in a packed encoding.
Uint256Width == 32

\* ------------------------------------------------------------------ inputs
\* "1", "12", "3", "23" as UTF-8 bytes.
Str1 == <<49>>
Str12 == <<49, 50>>
Str3 == <<51>>
Str23 == <<50, 51>>

\* Bus ids and driver ids submitted by producers; "1" is used as both.
BusIds == {Str1, Str12}

DriverIds == {Str3, Str23, Str1}

\* Every string in play.
Strings == BusIds \cup DriverIds

\* (source, destination) labels; the contract never interprets them.
Routes == {<<"Depot", "Mall">>}

Timestamps == 0..MaxTime

\* ------------------------------------------------------------------- state
VARIABLES
    assignments,    \* Assignment[] public assignments
    byBus,          \* mapping(string => uint256[])
    byDriver,       \* mapping(string => uint256[])
    byBusDriver,    \* mapping(bytes32 => uint256[])
    byBusTime,      \* mapping(bytes32 => uint256)
    byDriverTime,   \* mapping(bytes32 => uint256)
    events,         \* AssignmentRecorded events emitted so far, in order
    result          \* outcome of the last call

vars == <<assignments, byBus, byDriver, byBusDriver, byBusTime, byDriverTime,
          events, result>>

store == <<assignments, byBus, byDriver, byBusDriver, byBusTime, byDriverTime>>

\* struct Assignment
Assignment(busId, source, destination, driverId, timestamp) ==
    [busId |-> busId, source |-> source, destination |-> destination,
     driverId |-> driverId, timestamp |-> timestamp]

\* ------------------------------------------------------------ key encoding
\* Big-endian bytes of n, left-padded with zeros to width w: byte i is
\* (n \div 256^(w - i)) % 256, which is 0 wherever 256^(w - i) exceeds every
\* integer of the model (w - i > 3).
BytesBE(n, w) ==
    [i \in 1..w |-> IF w - i > 3 THEN 0 ELSE (n \div 256^(w - i)) % 256]

\* abi.encodePacked(string, string): the bytes of a directly followed by the
\* bytes of b, with neither length nor padding.
encodePackedStrStr(a, b) == a \o b

\* abi.encodePacked(string, uint256): the bytes of a followed by the 32-byte
\* big-endian value.
encodePackedStrUint(a, n) == a \o BytesBE(n, Uint256Width)

\* keccak256 is taken to be collision-free: a digest is identified with its
\* preimage.
keccak256(data) == data

\* Key of byBusDriver.
busDriverKey(busId, driverId) == keccak256(encodePackedStrStr(busId, driverId))

\* A point key that leaves the timestamp out.
timeKey_idOnly(id, timestamp) == keccak256(id)

\* Key of byBusTime and of byDriverTime.
timeKey(id, timestamp) == keccak256(encodePackedStrUint(id, timestamp))

\* ---------------------------------------------------------------- storage
\* Read of a mapping(.. => uint256[]): an unwritten key is the empty array.
arrayAt(m, key) == IF key \in DOMAIN m THEN m[key] ELSE <<>>

\* Read of a mapping(.. => uint256): an unwritten key is 0.
uintAt(m, key) == IF key \in DOMAIN m THEN m[key] ELSE 0

\* A push that stores the id twice.
push_twice(m, key, id) ==
    [k \in DOMAIN m \cup {key} |->
        IF k = key THEN arrayAt(m, key) \o <<id, id>> ELSE m[k]]

\* A push at the front of the list.
push_front(m, key, id) ==
    [k \in DOMAIN m \cup {key} |->
        IF k = key THEN <<id>> \o arrayAt(m, key) ELSE m[k]]

\* A push that replaces the list instead of extending it.
push_replace(m, key, id) ==
    [k \in DOMAIN m \cup {key} |-> IF k = key THEN <<id>> ELSE m[k]]

\* m[key].push(id)
push(m, key, id) ==
    [k \in DOMAIN m \cup {key} |->
        IF k = key THEN Append(arrayAt(m, key), id) ELSE m[k]]

\* A point write that is dropped.
setUint_dropped(m, key, id) == m

\* A point write that keeps the first value stored under a key.
setUint_keepFirst(m, key, id) ==
    [k \in DOMAIN m \cup {key} |-> IF k \in DOMAIN m THEN m[k] ELSE id]

\* m[key] = id
setUint(m, key, id) ==
    [k \in DOMAIN m \cup {key} |-> IF k = key THEN id ELSE m[k]]

\* A log write that stores into the last slot instead of growing the array.
pushAssignment_inPlace(arr, rec) ==
    IF arr = <<>> THEN <<rec>> ELSE [arr EXCEPT ![Len(arr)] = rec]

\* assignments.push(rec)
pushAssignment(arr, rec) == Append(arr, rec)

\* An id taken from a length read before the previous write landed.
nextId_stale(arr) == IF Len(arr) > 0 THEN Len(arr) - 1 ELSE 0

\* Ids counted from 1.
nextId_fromOne(arr) == Len(arr) + 1

\* uint256 id = assignments.length
nextId(arr) == Len(arr)

\* A write that announces nothing.
emitAssignmentRecorded_silent(log, id, busId, driverId, timestamp) == log

\* A write that announces its id twice.
emitAssignmentRecorded_twice(log, id, busId, driverId, timestamp) ==
    log \o << [id |-> id, busId |-> busId, driverId |-> driverId,
               timestamp |-> timestamp],
              [id |-> id, busId |-> busId, driverId |-> driverId,
               timestamp |-> timestamp] >>

\* emit AssignmentRecorded(id, busId, driverId, timestamp)
emitAssignmentRecorded(log, id, busId, driverId, timestamp) ==
    Append(log, [id |-> id, busId |-> busId, driverId |-> driverId,
                 timestamp |-> timestamp])

\* ------------------------------------------------------------------ writes
\* A write that turns down empty ids.
recordAssignment_nonEmpty(busId, source, destination, driverId, timestamp) ==
    LET id == nextId(assignments) IN
    /\ Len(busId) > 0
    /\ Len(driverId) > 0
    /\ assignments' = pushAssignment(assignments,
                        Assignment(busId, source, destination, driverId, timestamp))
    /\ byBus' = push(byBus, busId, id)
    /\ byDriver' = push(byDriver, driverId, id)
    /\ byBusDriver' = push(byBusDriver, busDriverKey(busId, driverId), id)
    /\ byBusTime' = setUint(byBusTime, timeKey(busId, timestamp), id)
    /\ byDriverTime' = setUint(byDriverTime, timeKey(driverId, timestamp), id)
    /\ events' = emitAssignmentRecorded(events, id, busId, driverId, timestamp)
    /\ result' = [op |-> "recordAssignment", status |-> "ok"]

\* A write that files the driver's point entry under the bus's key.
recordAssignment_busKeyTwice(busId, source, destination, driverId, timestamp) ==
    LET id == nextId(assignments) IN
    /\ assignments' = pushAssignment(assignments,
                        Assignment(busId, source, destination, driverId, timestamp))
    /\ byBus' = push(byBus, busId, id)
    /\ byDriver' = push(byDriver, driverId, id)
    /\ byBusDriver' = push(byBusDriver, busDriverKey(busId, driverId), id)
    /\ byBusTime' = setUint(byBusTime, timeKey(busId, timestamp), id)
    /\ byDriverTime' = setUint(byDriverTime, timeKey(busId, timestamp), id)
    /\ events' = emitAssignmentRecorded(events, id, busId, driverId, timestamp)
    /\ result' = [op |-> "recordAssignment", status |-> "ok"]

\* A write that requires timestamps not to go back.
recordAssignment_monotonic(busId, source, destination, driverId, timestamp) ==
    LET id == nextId(assignments) IN
    /\ \A k \in 1..Len(assignments) : assignments[k].timestamp <= timestamp
    /\ assignments' = pushAssignment(assignments,
                        Assignment(busId, source, destination, driverId, timestamp))
    /\ byBus' = push(byBus, busId, id)
    /\ byDriver' = push(byDriver, driverId, id)
    /\ byBusDriver' = push(byBusDriver, busDriverKey(busId, driverId), id)
    /\ byBusTime' = setUint(byBusTime, timeKey(busId, timestamp), id)
    /\ byDriverTime' = setUint(byDriverTime, timeKey(driverId, timestamp), id)
    /\ events' = emitAssignmentRecorded(events, id, busId, driverId, timestamp)
    /\ result' = [op |-> "recordAssignment", status |-> "ok"]

\* function recordAssignment(busId, source, destination, driverId, timestamp)
recordAssignment(busId, source, destination, driverId, timestamp) ==
    LET id == nextId(assignments) IN
    /\ assignments' = pushAssignment(assignments,
                        Assignment(busId, source, destination, driverId, timestamp))
    /\ byBus' = push(byBus, busId, id)
    /\ byDriver' = push(byDriver, driverId, id)
    /\ byBusDriver' = push(byBusDriver, busDriverKey(busId, driverId), id)
    /\ byBusTime' = setUint(byBusTime, timeKey(busId, timestamp), id)
    /\ byDriverTime' = setUint(byDriverTime, timeKey(driverId, timestamp), id)
    /\ events' = emitAssignmentRecorded(events, id, busId, driverId, timestamp)
    /\ result' = [op |-> "recordAssignment", status |-> "ok"]

\* ------------------------------------------------------------------- reads
\* A loop that reads ids[i] instead of ids[ids.length - 1 - i].
descending_forward(ids) == ids

\* The positions read by the loop "results[i] = assignments[ids[ids.length - 1 - i]]",
\* for i = 0 .. ids.length - 1.
descending(ids) == [i \in 1..Len(ids) |-> ids[Len(ids) - (i - 1)]]

\* assignments[id] reverts with Panic(0x32) when id >= assignments.length.
inRange(id) == id < Len(assignments)

\* A loop that stops one element early (i < ids.length - 1).
collect_short(op, ids) ==
    LET order == SubSeq(descending(ids), 1, Len(ids) - 1) IN
    IF \A i \in 1..Len(order) : inRange(order[i])
    THEN [op |-> op, status |-> "ok",
          value |-> [i \in 1..Len(order) |-> assignments[order[i] + 1]]]
    ELSE [op |-> op, status |-> "Panic"]

\* The array built by the loop of a list query over the id list ids.
collect(op, ids) ==
    LET order == descending(ids) IN
    IF \A i \in 1..Len(order) : inRange(order[i])
    THEN [op |-> op, status |-> "ok",
          value |-> [i \in 1..Len(order) |-> assignments[order[i] + 1]]]
    ELSE [op |-> op, status |-> "Panic"]

\* An out-of-range read that yields the zero record instead of reverting.
fetch_unchecked(op, id) ==
    IF inRange(id)
    THEN [op |-> op, status |-> "ok", value |-> assignments[id + 1]]
    ELSE [op |-> op, status |-> "ok", value |-> Assignment(<<>>, "", "", <<>>, 0)]

\* "return assignments[id]" of a point query.
fetch(op, id) ==
    IF inRange(id)
    THEN [op |-> op, status |-> "ok", value |-> assignments[id + 1]]
    ELSE [op |-> op, status |-> "Panic"]

\* The getter that "Assignment[] public assignments" declares: assignments(index).
getAssignment(index) == fetch("assignments", index)

getDriversByBus(busId) == collect("getDriversByBus", arrayAt(byBus, busId))

\* A driver query that reads the bus index.
getBusesByDriver_fromByBus(driverId) ==
    collect("getBusesByDriver", arrayAt(byBus, driverId))

getBusesByDriver(driverId) == collect("getBusesByDriver", arrayAt(byDriver, driverId))

getAssignmentsByBusDriver(busId, driverId) ==
    collect("getAssignmentsByBusDriver",
            arrayAt(byBusDriver, busDriverKey(busId, driverId)))

getDriverByBusTime(busId, timestamp) ==
    fetch("getDriverByBusTime", uintAt(byBusTime, timeKey(busId, timestamp)))

getBusByDriverTime(driverId, timestamp) ==
    fetch("getBusByDriverTime", uintAt(byDriverTime, timeKey(driverId, timestamp)))

\* ----------------------------------------------------------------- actions
Init ==
    /\ assignments = <<>>
    /\ byBus = <<>>
    /\ byDriver = <<>>
    /\ byBusDriver = <<>>
    /\ byBusTime = <<>>
    /\ byDriverTime = <<>>
    /\ events = <<>>
    /\ result = [op |-> "constructor", status |-> "ok"]

RecordAssignment ==
    /\ Len(assignments) < MaxLog
    /\ \E busId \in BusIds, driverId \in DriverIds, route \in Routes,
          timestamp \in Timestamps :
          recordAssignment(busId, route[1], route[2], driverId, timestamp)

GetDriversByBus ==
    /\ \E busId \in BusIds : result' = getDriversByBus(busId)
    /\ UNCHANGED <<store, events>>

GetBusesByDriver ==
    /\ \E driverId \in DriverIds : result' = getBusesByDriver(driverId)
    /\ UNCHANGED <<store, events>>

GetAssignmentsByBusDriver ==
    /\ \E busId \in BusIds, driverId \in DriverIds :
          result' = getAssignmentsByBusDriver(busId, driverId)
    /\ UNCHANGED <<store, events>>

\* A lookup that creates the entry it does not find.
GetDriverByBusTime_creating ==
    /\ \E busId \in BusIds, timestamp \in Timestamps :
          /\ result' = getDriverByBusTime(busId, timestamp)
          /\ byBusTime' = setUint(byBusTime, timeKey(busId, timestamp),
                                  uintAt(byBusTime, timeKey(busId, timestamp)))
    /\ UNCHANGED <<assignments, byBus, byDriver, byBusDriver, byDriverTime, events>>

GetDriverByBusTime ==
    /\ \E busId \in BusIds, timestamp \in Timestamps :
          result' = getDriverByBusTime(busId, timestamp)
    /\ UNCHANGED <<store, events>>

GetBusByDriverTime ==
    /\ \E driverId \in DriverIds, timestamp \in Timestamps :
          result' = getBusByDriverTime(driverId, timestamp)
    /\ UNCHANGED <<store, events>>

GetAssignment ==
    /\ \E index \in 0..MaxLog : result' = getAssignment(index)
    /\ UNCHANGED <<store, events>>

Next ==
    \/ RecordAssignment
    \/ GetAssignment
    \/ GetDriversByBus
    \/ GetBusesByDriver
    \/ GetAssignmentsByBusDriver
    \/ GetDriverByBusTime
    \/ GetBusByDriverTime

Spec == Init /\ [][Next]_vars

\* ----------------------------------------------------------------- typing
TypeOK ==
    /\ Len(assignments) <= MaxLog
    /\ Len(events) = Len(assignments)
    /\ result.status \in {"ok", "Panic"}

\* ------------------------------------------------- what the queries read
\* The sequenceIds whose records getDriversByBus(busId) returns, in order.
idsByBus(busId) == descending(arrayAt(byBus, busId))

\* The sequenceIds whose records getBusesByDriver(driverId) returns, in order.
idsByDriver(driverId) == descending(arrayAt(byDriver, driverId))

\* The sequenceIds whose records getAssignmentsByBusDriver returns, in order.
idsByBusDriver(busId, driverId) ==
    descending(arrayAt(byBusDriver, busDriverKey(busId, driverId)))

\* The sequenceId getDriverByBusTime(busId, timestamp) dereferences.
idByBusTime(busId, timestamp) == uintAt(byBusTime, timeKey(busId, timestamp))

\* The sequenceId getBusByDriverTime(driverId, timestamp) dereferences.
idByDriverTime(driverId, timestamp) ==
    uintAt(byDriverTime, timeKey(driverId, timestamp))

\* The record stored at sequenceId id.
recordAt(id) == assignments[id + 1]

\* The sequenceIds assigned so far.
SeqIds == 0..(Len(assignments) - 1)

\* The list query outcome res, which read the ids in order, returns the record
\* of sequenceId id.
Returns(res, order, id) ==
    /\ res.status = "ok"
    /\ \E j \in 1..Len(res.value) :
          j <= Len(order) /\ order[j] = id /\ res.value[j] = recordAt(id)

\* ------------------------------------------------------------------ claims
\* C1 (index completeness): every record of the log is returned by
\* getDriversByBus of its busId, by getBusesByDriver of its driverId and by
\* getAssignmentsByBusDriver of its (busId, driverId).
C1_IndexCompleteness ==
    \A id \in SeqIds :
        LET r == recordAt(id) IN
        /\ Returns(getDriversByBus(r.busId), idsByBus(r.busId), id)
        /\ Returns(getBusesByDriver(r.driverId), idsByDriver(r.driverId), id)
        /\ Returns(getAssignmentsByBusDriver(r.busId, r.driverId),
                   idsByBusDriver(r.busId, r.driverId), id)

\* C1 witness: a pair query has returned two or more records of a log that
\* holds records of more than one bus.
C1_Witness ==
    /\ result.op = "getAssignmentsByBusDriver"
    /\ result.status = "ok"
    /\ Len(result.value) >= 2
    /\ \E i, j \in SeqIds : recordAt(i).busId # recordAt(j).busId

\* No record with this busId and timestamp was ever appended.
NeverAppendedBusTime(busId, timestamp) ==
    \A id \in SeqIds :
        ~(recordAt(id).busId = busId /\ recordAt(id).timestamp = timestamp)

\* No record with this driverId and timestamp was ever appended.
NeverAppendedDriverTime(driverId, timestamp) ==
    \A id \in SeqIds :
        ~(recordAt(id).driverId = driverId /\ recordAt(id).timestamp = timestamp)

\* C2 (not-found on point lookups), as claimed: a point lookup of a
\* (busId, timestamp) or (driverId, timestamp) that was never appended fails
\* and returns no record.
C2_NotFoundOnPointLookup ==
    \A s \in Strings, t \in Timestamps :
        /\ NeverAppendedBusTime(s, t) => getDriverByBusTime(s, t).status # "ok"
        /\ NeverAppendedDriverTime(s, t) => getBusByDriverTime(s, t).status # "ok"

\* C3 (key non-collision), as claimed: two records of the log whose
\* (busId, driverId) differ as tuples are filed under different keys of the
\* by-bus-and-driver index.
C3_PairKeyInjective ==
    \A i, j \in SeqIds :
        <<recordAt(i).busId, recordAt(i).driverId>>
            # <<recordAt(j).busId, recordAt(j).driverId>>
        => busDriverKey(recordAt(i).busId, recordAt(i).driverId)
            # busDriverKey(recordAt(j).busId, recordAt(j).driverId)

\* The largest sequenceId of a non-empty set of ids.
Latest(ids) == CHOOSE id \in ids : \A other \in ids : other <= id

\* C4 (point overwrite, last write wins): for every (busId, timestamp) carried
\* by a record, getDriverByBusTime returns the record with the largest
\* sequenceId among those with that busId and timestamp; symmetrically for
\* getBusByDriverTime.
C4_PointOverwrite ==
    \A id \in SeqIds :
        LET r == recordAt(id)
            sameBus == {k \in SeqIds : /\ recordAt(k).busId = r.busId
                                       /\ recordAt(k).timestamp = r.timestamp}
            sameDriver == {k \in SeqIds : /\ recordAt(k).driverId = r.driverId
                                          /\ recordAt(k).timestamp = r.timestamp}
        IN
        /\ idByBusTime(r.busId, r.timestamp) = Latest(sameBus)
        /\ getDriverByBusTime(r.busId, r.timestamp)
             = [op |-> "getDriverByBusTime", status |-> "ok",
                value |-> recordAt(Latest(sameBus))]
        /\ idByDriverTime(r.driverId, r.timestamp) = Latest(sameDriver)
        /\ getBusByDriverTime(r.driverId, r.timestamp)
             = [op |-> "getBusByDriverTime", status |-> "ok",
                value |-> recordAt(Latest(sameDriver))]

\* C4 witness: two records share (busId, timestamp) but not the driver, and
\* getDriverByBusTime has returned the later one.
C4_Witness ==
    \E i, j \in SeqIds :
        /\ i < j
        /\ recordAt(i).busId = recordAt(j).busId
        /\ recordAt(i).timestamp = recordAt(j).timestamp
        /\ recordAt(i).driverId # recordAt(j).driverId
        /\ \A k \in SeqIds : k > j => recordAt(k).busId # recordAt(j).busId
        /\ result = [op |-> "getDriverByBusTime", status |-> "ok",
                     value |-> recordAt(j)]

\* ids is strictly decreasing.
StrictlyDecreasing(ids) ==
    \A i, j \in 1..Len(ids) : i < j => ids[i] > ids[j]

\* The list query outcome res is the records of the ids of order, in order.
ReturnsInOrder(res, order) ==
    /\ res.status = "ok"
    /\ Len(res.value) = Len(order)
    /\ \A j \in 1..Len(order) : res.value[j] = recordAt(order[j])

SuppliedTo(rec, ev) ==
    /\ rec.busId = ev.busId
    /\ rec.driverId = ev.driverId
    /\ rec.timestamp = ev.timestamp
    /\ <<rec.source, rec.destination>> \in Routes

\* C6 (append-only): no step shortens the log or changes a record already in
\* it, and every record carries the values its recordAssignment call supplied
\* (those the call's event repeats, and a submitted source and destination).
C6_AppendOnly ==
    [][/\ Len(assignments') >= Len(assignments)
       /\ \A id \in SeqIds : assignments'[id + 1] = recordAt(id)
       /\ Len(events') = Len(assignments')
       /\ \A k \in 1..Len(assignments') : SuppliedTo(assignments'[k], events'[k])
      ]_vars

\* C6 witness: two different records are in the log and a read has run after
\* the writes.
C6_Witness ==
    /\ Len(assignments) >= 2
    /\ recordAt(0) # recordAt(1)
    /\ result.op = "getBusByDriverTime"

\* C7 (sequence ids): a recordAssignment call stores its record at the id equal
\* to the log length before the call, files that id in the indices and
\* announces it; the ids announced so far are 0, 1, 2, ... without gaps.
C7_SequenceIds ==
    [][assignments' # assignments =>
         LET id == Len(assignments)
             rec == assignments'[Len(assignments')]
         IN
         /\ Len(assignments') = id + 1
         /\ events' = Append(events, [id |-> id, busId |-> rec.busId,
                                      driverId |-> rec.driverId,
                                      timestamp |-> rec.timestamp])
         /\ arrayAt(byBus', rec.busId) = Append(arrayAt(byBus, rec.busId), id)
         /\ uintAt(byBusTime', timeKey(rec.busId, rec.timestamp)) = id
         /\ \A k \in 1..Len(events') : events'[k].id = k - 1
      ]_vars

\* C7 witness: the second write has just been announced with id 1.
C7_Witness ==
    /\ result.op = "recordAssignment"
    /\ Len(events) >= 2
    /\ events[2].id = 1

\* C8 (empty result is not an error), as claimed: a list query whose busId,
\* driverId or (busId, driverId) no record carries succeeds with an empty list.
C8_EmptyResultNotError ==
    /\ \A b \in Strings :
          (\A id \in SeqIds : recordAt(id).busId # b)
          => getDriversByBus(b)
               = [op |-> "getDriversByBus", status |-> "ok", value |-> <<>>]
    /\ \A d \in Strings :
          (\A id \in SeqIds : recordAt(id).driverId # d)
          => getBusesByDriver(d)
               = [op |-> "getBusesByDriver", status |-> "ok", value |-> <<>>]
    /\ \A b \in Strings, d \in Strings :
          (\A id \in SeqIds : <<recordAt(id).busId, recordAt(id).driverId>> # <<b, d>>)
          => getAssignmentsByBusDriver(b, d)
               = [op |-> "getAssignmentsByBusDriver", status |-> "ok",
                  value |-> <<>>]

\* The elements of a list.
Elements(list) == {list[i] : i \in 1..Len(list)}

\* C9 (write atomicity): between any two operations the log and the five
\* indices agree: every id of the log is in the three lists of its record and
\* both point entries of its record are set, and no index holds an id that is
\* not in the log.
C9_WriteAtomicity ==
    /\ \A id \in SeqIds :
          LET r == recordAt(id) IN
          /\ id \in Elements(arrayAt(byBus, r.busId))
          /\ id \in Elements(arrayAt(byDriver, r.driverId))
          /\ id \in Elements(arrayAt(byBusDriver, busDriverKey(r.busId, r.driverId)))
          /\ timeKey(r.busId, r.timestamp) \in DOMAIN byBusTime
          /\ timeKey(r.driverId, r.timestamp) \in DOMAIN byDriverTime
    /\ \A k \in DOMAIN byBus : Elements(byBus[k]) \subseteq SeqIds
    /\ \A k \in DOMAIN byDriver : Elements(byDriver[k]) \subseteq SeqIds
    /\ \A k \in DOMAIN byBusDriver : Elements(byBusDriver[k]) \subseteq SeqIds
    /\ \A k \in DOMAIN byBusTime : byBusTime[k] \in SeqIds
    /\ \A k \in DOMAIN byDriverTime : byDriverTime[k] \in SeqIds

\* C9 witness: a reader has got a non-empty answer from getBusesByDriver on a
\* log of two or more records.
C9_Witness ==
    /\ Len(assignments) >= 2
    /\ result.op = "getBusesByDriver"
    /\ result.status = "ok"
    /\ Len(result.value) >= 1

\* C10 (a point overwrite loses nothing from the lists): when a later record
\* has the (busId, timestamp) of an earlier one, the earlier record is still
\* returned by getDriversByBus, getBusesByDriver and getAssignmentsByBusDriver
\* of its own fields, and getDriverByBusTime no longer reads its id.
C10_OverwriteKeepsLists ==
    \A i, j \in SeqIds :
        (/\ i < j
         /\ recordAt(i).busId = recordAt(j).busId
         /\ recordAt(i).timestamp = recordAt(j).timestamp)
        => LET r == recordAt(i) IN
           /\ Returns(getDriversByBus(r.busId), idsByBus(r.busId), i)
           /\ Returns(getBusesByDriver(r.driverId), idsByDriver(r.driverId), i)
           /\ Returns(getAssignmentsByBusDriver(r.busId, r.driverId),
                      idsByBusDriver(r.busId, r.driverId), i)
           /\ idByBusTime(r.busId, r.timestamp) # i

\* C10 witness: getDriversByBus has returned two records of one bus with one
\* timestamp and different drivers.
C10_Witness ==
    /\ result.op = "getDriversByBus"
    /\ result.status = "ok"
    /\ Len(result.value) >= 2
    /\ result.value[1].timestamp = result.value[2].timestamp
    /\ result.value[1].driverId # result.value[2].driverId

EventOf(id) ==
    [id |-> id, busId |-> recordAt(id).busId, driverId |-> recordAt(id).driverId,
     timestamp |-> recordAt(id).timestamp]

\* C12 (notification): a step that appends a record emits exactly one
\* AssignmentRecorded event, which carries the id, busId, driverId and
\* timestamp of that record, and no other step emits one; the events are in
\* increasing id order, and in the state in which the event of id i is out the
\* log and the five indices contain i.
C12_Notification ==
    [][/\ (assignments' # assignments) <=> (events' # events)
       /\ assignments' # assignments =>
            LET id == Len(assignments)
                rec == assignments'[Len(assignments')]
            IN
            /\ events' = Append(events, [id |-> id, busId |-> rec.busId,
                                         driverId |-> rec.driverId,
                                         timestamp |-> rec.timestamp])
            /\ \A k \in 1..Len(events') : events'[k].id = k - 1
            /\ Len(assignments') = id + 1
            /\ id \in Elements(arrayAt(byBus', rec.busId))
            /\ id \in Elements(arrayAt(byDriver', rec.driverId))
            /\ id \in Elements(arrayAt(byBusDriver',
                                       busDriverKey(rec.busId, rec.driverId)))
            /\ uintAt(byBusTime', timeKey(rec.busId, rec.timestamp)) = id
            /\ uintAt(byDriverTime', timeKey(rec.driverId, rec.timestamp)) = id
      ]_vars

\* C12 witness: two events are out, for records of different drivers.
C12_Witness ==
    /\ Len(events) = 2
    /\ events[1] = EventOf(0)
    /\ events[2] = EventOf(1)
    /\ events[1].driverId # events[2].driverId

\* The timestamps of the records of a list never increase along the list.
TimestampsDescend(records) ==
    \A i, j \in 1..Len(records) :
        i < j => records[i].timestamp >= records[j].timestamp

\* C13 (descending by timestamp), as the comments of getDriversByBus and
\* getBusesByDriver state it: the records each of them returns are in
\* descending order of their timestamp field.
C13_DescendingByTimestamp ==
    /\ \A b \in Strings :
          getDriversByBus(b).status = "ok"
          => TimestampsDescend(getDriversByBus(b).value)
    /\ \A d \in Strings :
          getBusesByDriver(d).status = "ok"
          => TimestampsDescend(getBusesByDriver(d).value)

\* The last call was the constructor or a write.  Every contents of the log and
\* the indices is first reached in such a state, the reads changing neither.
FreshStore == result.op \in {"constructor", "recordAssignment"}

\* C14 (timestamps are not validated): in every state a recordAssignment call
\* with any timestamp, lower than, equal to or higher than those of the log,
\* goes through and appends at the next sequenceId; and every record, whatever
\* its timestamp is relative to the records before it, is in the three lists of
\* its fields and is what the point indices yield unless a later record has
\* its key.
C14_TimestampsNotValidated ==
    /\ FreshStore =>
          \A b \in BusIds, d \in DriverIds, t \in Timestamps :
             ENABLED (/\ recordAssignment(b, "Depot", "Mall", d, t)
                      /\ assignments' = Append(assignments,
                                               Assignment(b, "Depot", "Mall", d, t)))
    /\ \A id \in SeqIds :
          LET r == recordAt(id) IN
          /\ id \in Elements(arrayAt(byBus, r.busId))
          /\ id \in Elements(arrayAt(byDriver, r.driverId))
          /\ id \in Elements(arrayAt(byBusDriver, busDriverKey(r.busId, r.driverId)))
          /\ idByBusTime(r.busId, r.timestamp) >= id
          /\ idByDriverTime(r.driverId, r.timestamp) >= id
          /\ events[id + 1] = EventOf(id)

\* C14 witness: the second record of the log has a lower timestamp than the
\* first, for the same bus.
C14_Witness ==
    /\ Len(assignments) = 2
    /\ recordAt(1).timestamp < recordAt(0).timestamp
    /\ recordAt(1).busId = recordAt(0).busId
    /\ result.op = "recordAssignment"

\* C15 (log lookup by id): the getter assignments(index) succeeds, with the
\* record stored at index, exactly when index is below the number of records
\* appended so far, and fails for every other index.
C15_LogLookupById ==
    /\ \A index \in 0..(MaxLog + 1) :
          /\ getAssignment(index).status = "ok" <=> index < Len(events)
          /\ index < Len(events)
             => /\ getAssignment(index).value = recordAt(index)
                /\ events[index + 1] = EventOf(index)
    /\ result.op = "assignments"
       => \E index \in 0..MaxLog : result = getAssignment(index)

\* C15 witness: on a log of one record the getter has failed for an id that
\* was never assigned.
C15_Witness ==
    /\ Len(assignments) = 1
    /\ result = [op |-> "assignments", status |-> "Panic"]

\* The five indices after the index updates of recordAssignment for the record
\* rec stored at sequenceId id, starting from the indices idx.
Reindex(idx, rec, id) ==
    [byBus |-> push(idx.byBus, rec.busId, id),
     byDriver |-> push(idx.byDriver, rec.driverId, id),
     byBusDriver |-> push(idx.byBusDriver, busDriverKey(rec.busId, rec.driverId), id),
     byBusTime |-> setUint(idx.byBusTime, timeKey(rec.busId, rec.timestamp), id),
     byDriverTime |-> setUint(idx.byDriverTime,
                              timeKey(rec.driverId, rec.timestamp), id)]

\* The five indices rebuilt from empty ones by replaying the first n records of
\* the log in sequenceId order.
RECURSIVE Replay(_)
Replay(n) ==
    IF n = 0
    THEN [byBus |-> <<>>, byDriver |-> <<>>, byBusDriver |-> <<>>,
          byBusTime |-> <<>>, byDriverTime |-> <<>>]
    ELSE Reindex(Replay(n - 1), assignments[n], n - 1)

\* C16 (replay determinism): the five indices are exactly those rebuilt by
\* replaying the log in sequenceId order.
C16_ReplayDeterminism ==
    [byBus |-> byBus, byDriver |-> byDriver, byBusDriver |-> byBusDriver,
     byBusTime |-> byBusTime, byDriverTime |-> byDriverTime]
        = Replay(Len(assignments))

\* C16 witness: the log holds two records with one (driverId, timestamp) and
\* different buses, so that the replay has a point entry to overwrite.
C16_Witness ==
    /\ Len(assignments) = 2
    /\ recordAt(0).driverId = recordAt(1).driverId
    /\ recordAt(0).timestamp = recordAt(1).timestamp
    /\ recordAt(0).busId # recordAt(1).busId
    /\ idByDriverTime(recordAt(0).driverId, recordAt(0).timestamp) = 1

\* The record at sequenceId id of the log after the step is filed under all
\* five index entries of its fields, a point entry holding its id or that of a
\* later record with the same key.
FiledAfter(id) ==
    LET r == assignments'[id + 1] IN
    /\ id \in Elements(arrayAt(byBus', r.busId))
    /\ id \in Elements(arrayAt(byDriver', r.driverId))
    /\ id \in Elements(arrayAt(byBusDriver', busDriverKey(r.busId, r.driverId)))
    /\ LET later == uintAt(byBusTime', timeKey(r.busId, r.timestamp)) IN
       /\ later >= id
       /\ later < Len(assignments')
       /\ assignments'[later + 1].busId = r.busId
       /\ assignments'[later + 1].timestamp = r.timestamp
    /\ LET later == uintAt(byDriverTime', timeKey(r.driverId, r.timestamp)) IN
       /\ later >= id
       /\ later < Len(assignments')
       /\ assignments'[later + 1].driverId = r.driverId
       /\ assignments'[later + 1].timestamp = r.timestamp

\* C17 (serialized writes): in whatever order submitted recordAssignment calls
\* are executed, each one gets an id no earlier call got, adds exactly one
\* record and one event while keeping those of the earlier calls, and leaves
\* every record filed under its five index entries.
C17_SerializedWrites ==
    [][assignments' # assignments =>
         /\ Len(assignments') = Len(assignments) + 1
         /\ Len(events') = Len(events) + 1
         /\ \A k \in 1..Len(assignments) : assignments'[k] = assignments[k]
         /\ \A k \in 1..Len(events) :
               /\ events'[k] = events[k]
               /\ events'[Len(events')].id # events[k].id
         /\ \A id \in 0..(Len(assignments') - 1) : FiledAfter(id)
      ]_vars

\* C17 witness: two calls for one bus and one timestamp, by different drivers,
\* have both been executed.
C17_Witness ==
    /\ Len(assignments) = 2
    /\ result.op = "recordAssignment"
    /\ recordAt(0).busId = recordAt(1).busId
    /\ recordAt(0).timestamp = recordAt(1).timestamp
    /\ recordAt(0).driverId # recordAt(1).driverId
    /\ events[1].id # events[2].id

\* before is a prefix of after.
IsPrefix(before, after) ==
    /\ Len(before) <= Len(after)
    /\ \A i \in 1..Len(before) : after[i] = before[i]

\* The list index changes from m to n by one push of id under key, and in no
\* other way.
OnePush(m, n, key, id) ==
    /\ arrayAt(n, key) = Append(arrayAt(m, key), id)
    /\ \A k \in (DOMAIN m \cup DOMAIN n) \ {key} : arrayAt(n, k) = arrayAt(m, k)

\* C18 (the lists grow by append only): over any step every list of byBus,
\* byDriver and byBusDriver is a prefix of what it becomes; a recordAssignment
\* call extends the three lists keyed by the new record's busId, driverId and
\* (busId, driverId) by the new id and changes no other list.
C18_ListsGrowByAppend ==
    [][/\ \A k \in DOMAIN byBus : IsPrefix(byBus[k], arrayAt(byBus', k))
       /\ \A k \in DOMAIN byDriver : IsPrefix(byDriver[k], arrayAt(byDriver', k))
       /\ \A k \in DOMAIN byBusDriver :
             IsPrefix(byBusDriver[k], arrayAt(byBusDriver', k))
       /\ IF assignments' # assignments
          THEN LET id == Len(assignments)
                   rec == assignments'[Len(assignments')]
               IN
               /\ OnePush(byBus, byBus', rec.busId, id)
               /\ OnePush(byDriver, byDriver', rec.driverId, id)
               /\ OnePush(byBusDriver, byBusDriver',
                          busDriverKey(rec.busId, rec.driverId), id)
          ELSE UNCHANGED <<byBus, byDriver, byBusDriver>>
      ]_vars

\* C18 witness: a list of byBus holds two ids while a list of byDriver holds
\* one.
C18_Witness ==
    /\ \E k \in DOMAIN byBus : Len(byBus[k]) = 2
    /\ \E k \in DOMAIN byDriver : Len(byDriver[k]) = 1

\* Inputs of a write that a validating ledger would turn down: empty ids and
\* labels, and a bus id that is also the driver id.
OddInputs ==
    {<<b, l[1], l[2], d, t>> :
        b \in {<<>>, Str1}, l \in {<<"", "">>, <<"Depot", "Mall">>},
        d \in {<<>>, Str1, Str3}, t \in Timestamps}

\* The inputs of the writes that built the log, for exact duplicates.
PastInputs ==
    {<<recordAt(id).busId, recordAt(id).source, recordAt(id).destination,
       recordAt(id).driverId, recordAt(id).timestamp>> : id \in SeqIds}

\* C19 (no input validation on write): whatever the log and the indices hold,
\* recordAssignment goes through for every combination of inputs, empty
\* strings, a busId equal to the driverId and exact duplicates of earlier
\* records included, and makes the log longer by exactly the record submitted.
C19_NoInputValidation ==
    FreshStore =>
    \A args \in OddInputs \cup PastInputs :
        ENABLED (/\ recordAssignment(args[1], args[2], args[3], args[4], args[5])
                 /\ Len(assignments') = Len(assignments) + 1
                 /\ assignments'[Len(assignments')]
                      = Assignment(args[1], args[2], args[3], args[4], args[5])
                 /\ result'.status = "ok")

\* C19 witness: the log holds a record whose busId is its driverId, twice.
C19_Witness ==
    /\ Len(assignments) = 2
    /\ recordAt(0) = recordAt(1)
    /\ recordAt(0).busId = recordAt(0).driverId
    /\ result.op = "recordAssignment"

\* C20 (pair-query soundness), as claimed: getAssignmentsByBusDriver(b, d)
\* returns records of busId b and driverId d only, and all of them.
C20_PairQuerySound ==
    \A b \in Strings, d \in Strings :
        LET res == getAssignmentsByBusDriver(b, d) IN
        /\ res.status = "ok"
        /\ \A j \in 1..Len(res.value) :
              res.value[j].busId = b /\ res.value[j].driverId = d
        /\ Elements(idsByBusDriver(b, d))
             = {id \in SeqIds : recordAt(id).busId = b /\ recordAt(id).driverId = d}

\* C21 (point-lookup soundness), as claimed: a record that
\* getDriverByBusTime(b, t) returns has busId b and timestamp t, and a record
\* that getBusByDriverTime(d, t) returns has driverId d and timestamp t, for
\* keys that were written and keys that were not.
C21_PointLookupSound ==
    \A s \in Strings, t \in Timestamps :
        /\ getDriverByBusTime(s, t).status = "ok"
           => /\ getDriverByBusTime(s, t).value.busId = s
              /\ getDriverByBusTime(s, t).value.timestamp = t
        /\ getBusByDriverTime(s, t).status = "ok"
           => /\ getBusByDriverTime(s, t).value.driverId = s
              /\ getBusByDriverTime(s, t).value.timestamp = t

\* The sequenceIds of the records whose busId is b, from the latest down.
RECURSIVE IdsWithBus(_, _)
IdsWithBus(b, n) ==
    IF n = 0 THEN <<>>
    ELSE IF assignments[n].busId = b
         THEN <<n - 1>> \o IdsWithBus(b, n - 1)
         ELSE IdsWithBus(b, n - 1)

\* The sequenceIds of the records whose driverId is d, from the latest down.
RECURSIVE IdsWithDriver(_, _)
IdsWithDriver(d, n) ==
    IF n = 0 THEN <<>>
    ELSE IF assignments[n].driverId = d
         THEN <<n - 1>> \o IdsWithDriver(d, n - 1)
         ELSE IdsWithDriver(d, n - 1)

\* C22 (single-field query exactness): getDriversByBus(b) returns the records
\* whose busId is b, each exactly once, and nothing else; getBusesByDriver(d)
\* returns the records whose driverId is d, each exactly once, and nothing
\* else, also for a string that is both a busId and a driverId.
C22_SingleFieldExact ==
    \A s \in Strings :
        /\ idsByBus(s) = IdsWithBus(s, Len(assignments))
        /\ ReturnsInOrder(getDriversByBus(s), IdsWithBus(s, Len(assignments)))
        /\ Len(getDriversByBus(s).value)
             = Cardinality({id \in SeqIds : recordAt(id).busId = s})
        /\ idsByDriver(s) = IdsWithDriver(s, Len(assignments))
        /\ ReturnsInOrder(getBusesByDriver(s), IdsWithDriver(s, Len(assignments)))
        /\ Len(getBusesByDriver(s).value)
             = Cardinality({id \in SeqIds : recordAt(id).driverId = s})

\* C22 witness: "1" is the busId of one record and the driverId of another,
\* and getBusesByDriver("1") has returned just the latter.
C22_Witness ==
    /\ Len(assignments) = 2
    /\ recordAt(0).busId = Str1
    /\ recordAt(0).driverId # Str1
    /\ recordAt(1).driverId = Str1
    /\ recordAt(1).busId # Str1
    /\ result = [op |-> "getBusesByDriver", status |-> "ok",
                 value |-> <<recordAt(1)>>]

\* ids is strictly increasing.
StrictlyIncreasing(ids) ==
    \A i, j \in 1..Len(ids) : i < j => ids[i] < ids[j]

\* C23 (index references are always valid): every id in a list of byBus,
\* byDriver or byBusDriver and every id stored under a key of byBusTime or
\* byDriverTime is below assignments.length, each list is strictly increasing,
\* and so no list query, and no point query of a key that was set, fails on
\* dereferencing an id.
C23_IndexReferencesValid ==
    /\ \A k \in DOMAIN byBus :
          /\ \A i \in 1..Len(byBus[k]) : inRange(byBus[k][i])
          /\ StrictlyIncreasing(byBus[k])
    /\ \A k \in DOMAIN byDriver :
          /\ \A i \in 1..Len(byDriver[k]) : inRange(byDriver[k][i])
          /\ StrictlyIncreasing(byDriver[k])
    /\ \A k \in DOMAIN byBusDriver :
          /\ \A i \in 1..Len(byBusDriver[k]) : inRange(byBusDriver[k][i])
          /\ StrictlyIncreasing(byBusDriver[k])
    /\ \A k \in DOMAIN byBusTime : inRange(byBusTime[k])
    /\ \A k \in DOMAIN byDriverTime : inRange(byDriverTime[k])
    /\ \A s \in Strings :
          /\ getDriversByBus(s).status = "ok"
          /\ getBusesByDriver(s).status = "ok"
          /\ \A d \in Strings : getAssignmentsByBusDriver(s, d).status = "ok"
          /\ \A t \in Timestamps :
                /\ timeKey(s, t) \in DOMAIN byBusTime
                   => getDriverByBusTime(s, t).status = "ok"
                /\ timeKey(s, t) \in DOMAIN byDriverTime
                   => getBusByDriverTime(s, t).status = "ok"

\* C23 witness: a list of the by-bus-and-driver index holds two ids and a
\* list query has run on the two-record log.
C23_Witness ==
    /\ Len(assignments) = 2
    /\ \E k \in DOMAIN byBusDriver : byBusDriver[k] = <<0, 1>>
    /\ result.op = "getAssignmentsByBusDriver"
    /\ result.status = "ok"

\* The outcome of getDriverByBusTime(busId, timestamp) after the step.
getDriverByBusTimeAfter(busId, timestamp) ==
    LET id == uintAt(byBusTime', timeKey(busId, timestamp)) IN
    IF id < Len(assignments')
    THEN [op |-> "getDriverByBusTime", status |-> "ok",
          value |-> assignments'[id + 1]]
    ELSE [op |-> "getDriverByBusTime", status |-> "Panic"]

\* The outcome of getBusByDriverTime(driverId, timestamp) after the step.
getBusByDriverTimeAfter(driverId, timestamp) ==
    LET id == uintAt(byDriverTime', timeKey(driverId, timestamp)) IN
    IF id < Len(assignments')
    THEN [op |-> "getBusByDriverTime", status |-> "ok",
          value |-> assignments'[id + 1]]
    ELSE [op |-> "getBusByDriverTime", status |-> "Panic"]

\* C24 (point-index isolation between keys): once a record with busId b and
\* timestamp t is in the log, a write whose (busId, timestamp) is another tuple
\* leaves the outcome of getDriverByBusTime(b, t) as it was, and likewise for
\* getBusByDriverTime and (driverId, timestamp); the point keys of two
\* different (string, timestamp) tuples differ.
C24_PointIndexIsolation ==
    [][assignments' # assignments =>
         LET rec == assignments'[Len(assignments')] IN
         /\ \A s \in Strings, t \in Timestamps :
               /\ (~NeverAppendedBusTime(s, t) /\ <<s, t>> # <<rec.busId, rec.timestamp>>)
                  => getDriverByBusTimeAfter(s, t) = getDriverByBusTime(s, t)
               /\ (~NeverAppendedDriverTime(s, t)
                      /\ <<s, t>> # <<rec.driverId, rec.timestamp>>)
                  => getBusByDriverTimeAfter(s, t) = getBusByDriverTime(s, t)
         /\ \A s1 \in Strings, s2 \in Strings, t1 \in Timestamps, t2 \in Timestamps :
               <<s1, t1>> # <<s2, t2>> => timeKey(s1, t1) # timeKey(s2, t2)
      ]_vars

\* C24 witness: the second record has the bus of the first and another
\* timestamp, and both point entries are in place.
C24_Witness ==
    /\ Len(assignments) = 2
    /\ recordAt(0).busId = recordAt(1).busId
    /\ recordAt(0).timestamp # recordAt(1).timestamp
    /\ idByBusTime(recordAt(0).busId, recordAt(0).timestamp) = 0
    /\ idByBusTime(recordAt(1).busId, recordAt(1).timestamp) = 1

\* The view functions.
ReadOps ==
    {"assignments", "getDriversByBus", "getBusesByDriver",
     "getAssignmentsByBusDriver", "getDriverByBusTime", "getBusByDriverTime"}

\* The step is a call of a view function whose outcome is what the call
\* yields before the step and what the same call yields after it.
SameOnRepeat ==
    \/ \E i \in 0..MaxLog :
          result' = getAssignment(i) /\ getAssignment(i)' = result'
    \/ \E s \in Strings :
          \/ result' = getDriversByBus(s) /\ getDriversByBus(s)' = result'
          \/ result' = getBusesByDriver(s) /\ getBusesByDriver(s)' = result'
          \/ \E d \in Strings :
                /\ result' = getAssignmentsByBusDriver(s, d)
                /\ getAssignmentsByBusDriver(s, d)' = result'
          \/ \E t \in Timestamps :
                \/ /\ result' = getDriverByBusTime(s, t)
                   /\ getDriverByBusTime(s, t)' = result'
                \/ /\ result' = getBusByDriverTime(s, t)
                   /\ getBusByDriverTime(s, t)' = result'

\* C25 (reads are pure): a call of a query, whether it succeeds or fails,
\* leaves the log and the five indices as they were and emits no event, and
\* the same call made again right after it gives the same outcome.
C25_ReadsArePure ==
    [][result'.op \in ReadOps =>
         /\ assignments' = assignments
         /\ byBus' = byBus
         /\ byDriver' = byDriver
         /\ byBusDriver' = byBusDriver
         /\ byBusTime' = byBusTime
         /\ byDriverTime' = byDriverTime
         /\ events' = events
         /\ SameOnRepeat
      ]_vars

\* C25 witness: a point query of a key that was never written has succeeded on
\* a log of two records.
C25_Witness ==
    /\ Len(assignments) = 2
    /\ result.op = "getDriverByBusTime"
    /\ result.status = "ok"
    /\ \E s \in BusIds, t \in Timestamps :
          /\ timeKey(s, t) \notin DOMAIN byBusTime
          /\ result = getDriverByBusTime(s, t)
====
